---- MODULE Spec2Model ----
(***************************************************************************)
(* Model of the two utilities of the repository:                           *)
(*   - FileService (tools/file_tools.py): view_file, str_replace,          *)
(*     create_file, insert_text, undo_edit acting on a file system;        *)
(*   - the jq command script (sfa_jq_anthropic_v1.py): main().             *)
(* Text is a sequence of one-character strings; "\n" is the newline.       *)
(***************************************************************************)
EXTENDS Integers, Sequences, FiniteSets, TLC

\* ------------------------------------------------------------------ bounds
MaxFileLen == 4      \* longest file content, in characters
MaxLine == 3         \* largest line number passed by a caller
MaxPrompts == 2      \* number of distinct user prompts

Chars == {"a", "\n"}

StrUpTo(n) == UNION {[1..k -> Chars] : k \in 0..n}

\* text arguments callers pass: empty, unterminated, terminated
Texts == {<<>>, <<"a">>, <<"\n">>}

Min(a, b) == IF a < b THEN a ELSE b
Max(a, b) == IF a > b THEN a ELSE b

\* --------------------------------------------------------- Python values
\* An argument is a str, None, or some other object (an int).
None == [t |-> "none", s |-> <<>>, n |-> 0]
Str(x) == [t |-> "str", s |-> x, n |-> 0]
PyInt(k) == [t |-> "int", s |-> <<>>, n |-> k]
NonStr == PyInt(7)

\* ------------------------------------------------------------ file system
\* One directory "d" and one file "d/f" in it.
VARIABLES dirExists, file
\* The last FileService call, its result, and the file system before it.
VARIABLES call, res, pre
\* The jq script: one run of main().
VARIABLES jpc, argsOk, apiKey, exe, prompt, sent, apiCalls, shellRuns,
          jqCommand, clientRaised, apiRaised, shellRaised, printRaised,
          returncode, stderrEmpty, guidance, exitCode

svcVars == <<dirExists, file, call, res, pre>>
jqVars == <<jpc, argsOk, apiKey, exe, prompt, sent, apiCalls, shellRuns,
            jqCommand, clientRaised, apiRaised, shellRaised, printRaised,
            returncode, stderrEmpty, guidance, exitCode>>
vars == <<dirExists, file, call, res, pre, jpc, argsOk, apiKey, exe, prompt,
          sent, apiCalls, shellRuns, jqCommand, clientRaised, apiRaised,
          shellRaised, printRaised, returncode, stderrEmpty, guidance,
          exitCode>>

Absent == [exists |-> FALSE, data |-> <<>>]
Present(d) == [exists |-> TRUE, data |-> d]

Paths == {<<>>, <<" ">>, <<"d", "/", "f">>, <<".", "/", "d", "/", "f">>}
ThePath == <<"d", "/", "f">>

\* path.strip() for the paths above: whitespace removed at both ends
RECURSIVE lstrip(_)
lstrip(p) == IF p # <<>> /\ Head(p) = " " THEN lstrip(Tail(p)) ELSE p

RECURSIVE rstrip(_)
rstrip(p) ==
    IF p # <<>> /\ p[Len(p)] = " " THEN rstrip(SubSeq(p, 1, Len(p) - 1)) ELSE p

strip(p) == rstrip(lstrip(p))

\* `not path or not path.strip()`
PathBlank_never(path) == FALSE

PathBlank(path) == path = <<>> \/ strip(path) = <<>>

\* normalize_path: resolves a spelling of a path to the file it names
normalize_path(path) ==
    IF Len(path) >= 2 /\ SubSeq(path, 1, 2) = <<".", "/">>
    THEN SubSeq(path, 3, Len(path))
    ELSE path

\* os.path.exists(path)
os_path_exists(p) == p = ThePath /\ file.exists

\* ------------------------------------------------------------- text helpers
RECURSIVE NewlineAt(_, _)
\* index of the first "\n" of s at or after i, or Len(s) when there is none
NewlineAt(s, i) ==
    IF i >= Len(s) THEN Len(s)
    ELSE IF s[i] = "\n" THEN i ELSE NewlineAt(s, i + 1)

RECURSIVE readlines(_)
\* f.readlines(): the lines of s, each with its terminator
readlines(s) ==
    IF s = <<>> THEN <<>>
    ELSE LET i == NewlineAt(s, 1)
         IN <<SubSeq(s, 1, i)>> \o readlines(SubSeq(s, i + 1, Len(s)))

RECURSIVE join(_)
\* "".join(lines)
join(lines) == IF lines = <<>> THEN <<>> ELSE Head(lines) \o join(Tail(lines))

\* lines[start:end] as Python slices, negative indices counted from the end
PySlice(l, start, end) ==
    LET n == Len(l)
        lo == IF start < 0 THEN Max(0, n + start) ELSE Min(start, n)
        hi == IF end < 0 THEN Max(0, n + end) ELSE Min(end, n)
    IN SubSeq(l, lo + 1, hi)

\* ------------------------------------------------------------ results
FileOperationResult(success, message, content) ==
    [success |-> success, message |-> message, content |-> content]

Outcome(r, d, f) == [res |-> r, dir |-> d, file |-> f]

Unchanged(r) == Outcome(r, dirExists, file)

\* ------------------------------------------------------------ view_file
\* the slice of view_file for a truthy view_range [start, end]
ViewSlice_noShift(lines, start, end) ==
    PySlice(lines, Max(0, start), IF end = -1 THEN Len(lines) ELSE Min(Len(lines), end))

ViewSlice(lines, start, end) ==
    LET s0 == Max(0, start - 1)
        e0 == IF end = -1 THEN Len(lines) ELSE Min(Len(lines), end)
    IN PySlice(lines, s0, e0)

\* the result of a failed viewing
ViewError_withContent(msg) == FileOperationResult(FALSE, msg, Str(file.data))

ViewError(msg) == FileOperationResult(FALSE, msg, None)

\* view_range is None, or [t |-> "range", s, e]
NoRange == [t |-> "none", s |-> 0, e |-> 0]
Range(s, e) == [t |-> "range", s |-> s, e |-> e]

view_file(path, view_range) ==
    LET p == normalize_path(path)
    IN IF ~os_path_exists(p)
       THEN Unchanged(ViewError("File does not exist"))
       ELSE LET lines == readlines(file.data)
                shown == IF view_range.t = "range"
                         THEN ViewSlice(lines, view_range.s, view_range.e)
                         ELSE lines
            IN Unchanged(FileOperationResult(TRUE, "Successfully viewed file",
                                             Str(join(shown))))

\* ------------------------------------------------------------ str_replace
RECURSIVE find(_, _, _)
\* content.find(old) from index i (1-based); 0 when old does not occur
find(content, old, i) ==
    IF i + Len(old) - 1 > Len(content) THEN 0
    ELSE IF SubSeq(content, i, i + Len(old) - 1) = old THEN i
    ELSE find(content, old, i + 1)

\* `old_str in content`
StrContains_always(old, content) == TRUE

StrContains(old, content) == find(content, old, 1) # 0

\* content.replace(old, new, 1)
ReplaceFirst(content, old, new) ==
    LET i == find(content, old, 1)
    IN IF i = 0 THEN content
       ELSE SubSeq(content, 1, i - 1) \o new \o
            SubSeq(content, i + Len(old), Len(content))

str_replace(path, old_str, new_str) ==
    LET p == normalize_path(path)
    IN IF ~os_path_exists(p)
       THEN Unchanged(FileOperationResult(FALSE, "File does not exist", None))
       ELSE IF ~StrContains(old_str, file.data)
       THEN Unchanged(FileOperationResult(FALSE,
                "The specified string was not found in the file", None))
       ELSE IF new_str.t # "str"
       \* content.replace raises TypeError before the file is opened
       THEN Unchanged(FileOperationResult(FALSE,
                "Error replacing text: replace() argument 2 must be str", None))
       ELSE Outcome(FileOperationResult(TRUE, "Successfully replaced text", None),
                    dirExists,
                    Present(ReplaceFirst(file.data, old_str, new_str.s)))

\* ------------------------------------------------------------ create_file
create_file(path, file_text) ==
    IF PathBlank(path)
    THEN Unchanged(FileOperationResult(FALSE,
             "Invalid file path provided: path is empty.", None))
    ELSE \* os.makedirs(directory), then open(path, "w") truncates
         IF file_text.t = "int"
         \* f.write raises TypeError on the opened, truncated file
         THEN Outcome(FileOperationResult(FALSE,
                  "Error creating file: write() argument must be str, not int", None),
                  TRUE, Present(<<>>))
         ELSE Outcome(FileOperationResult(TRUE, "Successfully created file", None),
                  TRUE,
                  Present(IF file_text.t = "str" THEN file_text.s ELSE <<>>))

\* ------------------------------------------------------------ insert_text
\* insert_line = min(max(0, insert_line - 1), len(lines))
InsertIndex(insert_line, n) == Min(Max(0, insert_line - 1), n)

\* `if new_str and not new_str.endswith("\n"): new_str += "\n"`
EnsureNewline(new_str) ==
    IF new_str # <<>> /\ new_str[Len(new_str)] # "\n"
    THEN new_str \o <<"\n">>
    ELSE new_str

\* lines.insert(i, x), i 0-based
ListInsert(lines, i, x) ==
    SubSeq(lines, 1, i) \o <<x>> \o SubSeq(lines, i + 1, Len(lines))

insert_text(path, insert_line, new_str) ==
    IF PathBlank(path)
    THEN Unchanged(FileOperationResult(FALSE,
             "Invalid file path provided: path is empty.", None))
    ELSE IF ~os_path_exists(normalize_path(path))
    THEN Unchanged(FileOperationResult(FALSE, "File does not exist", None))
    ELSE IF insert_line.t = "none"
    THEN Unchanged(FileOperationResult(FALSE,
             "No line number specified: insert_line is missing.", None))
    ELSE LET lines == readlines(file.data)
             idx == InsertIndex(insert_line.n, Len(lines))
         IN IF idx < 0 \/ idx > Len(lines)
            THEN Unchanged(FileOperationResult(FALSE,
                     "Insert line number out of range", None))
            ELSE IF new_str.t = "int"
            \* a truthy non-str has no endswith: raised before the file is opened
            THEN Unchanged(FileOperationResult(FALSE,
                     "Error inserting text: object has no attribute endswith", None))
            ELSE IF new_str.t = "none"
            \* open(path, "w") truncates; writelines writes the lines before the
            \* None element and raises TypeError on it
            THEN Outcome(FileOperationResult(FALSE,
                     "Error inserting text: write() argument must be str, not None",
                     None),
                     dirExists, Present(join(SubSeq(lines, 1, idx))))
            ELSE Outcome(FileOperationResult(TRUE,
                     "Successfully inserted text", None),
                     dirExists,
                     Present(join(ListInsert(lines, idx, EnsureNewline(new_str.s)))))

\* --------------------------------------------------------------- undo_edit
UndoMessage == "Undo functionality is not implemented in this version."

undo_edit(path) ==
    IF PathBlank(path)
    THEN Unchanged(FileOperationResult(FALSE,
             "Invalid file path provided: path is empty.", None))
    ELSE Unchanged(FileOperationResult(TRUE, UndoMessage, None))

\* ------------------------------------------------------ FileService calls
NoArg == None

Call(op, path, a1, a2, rng) ==
    [op |-> op, path |-> path, a1 |-> a1, a2 |-> a2, rng |-> rng]

\* one call of the service: record the call, its result and the prior state
Do(c, out) ==
    /\ Len(out.file.data) <= MaxFileLen
    /\ call' = c
    /\ res' = out.res
    /\ pre' = [dir |-> dirExists, file |-> file]
    /\ dirExists' = out.dir
    /\ file' = out.file
    /\ UNCHANGED jqVars

LineArgs == {None} \cup {PyInt(k) : k \in -1..(MaxLine + 1)}
TextArgs == {None, NonStr} \cup {Str(x) : x \in Texts}
RangeArgs == {NoRange} \cup {Range(s, e) : s \in 0..MaxLine, e \in -3..MaxLine}

OldArgs == Texts \cup {<<"a", "a">>}

ViewFile ==
    \E path \in Paths, r \in RangeArgs :
        Do(Call("view_file", path, NoArg, NoArg, r), view_file(path, r))

StrReplace ==
    \E path \in Paths, old \in OldArgs,
       new \in {None} \cup {Str(x) : x \in Texts} :
        Do(Call("str_replace", path, Str(old), new, NoRange),
           str_replace(path, old, new))

CreateFile ==
    \E path \in Paths, text \in TextArgs :
        Do(Call("create_file", path, text, NoArg, NoRange),
           create_file(path, text))

InsertText ==
    \E path \in Paths, line \in LineArgs, text \in TextArgs :
        Do(Call("insert_text", path, line, text, NoRange),
           insert_text(path, line, text))

UndoEdit ==
    \E path \in Paths :
        Do(Call("undo_edit", path, NoArg, NoArg, NoRange), undo_edit(path))

JqIdle ==
    /\ jpc = "idle" /\ argsOk = FALSE /\ apiKey = "unset" /\ exe = FALSE
    /\ prompt = 0 /\ clientRaised = FALSE
    /\ sent = <<>> /\ apiCalls = 0 /\ shellRuns = 0 /\ jqCommand = <<>>
    /\ apiRaised = FALSE /\ shellRaised = FALSE /\ printRaised = FALSE
    /\ returncode = 0 /\ stderrEmpty = TRUE /\ guidance = FALSE
    /\ exitCode = -1

Init ==
    /\ dirExists \in BOOLEAN
    /\ file \in {Absent} \cup {Present(d) : d \in StrUpTo(MaxFileLen)}
    /\ file.exists => dirExists
    /\ call = Call("init", <<>>, NoArg, NoArg, NoRange)
    /\ res = FileOperationResult(TRUE, "init", None)
    /\ pre = [dir |-> dirExists, file |-> file]
    /\ JqIdle

Next == ViewFile \/ StrReplace \/ CreateFile \/ InsertText \/ UndoEdit

Spec == Init /\ [][Next]_vars

\* ------------------------------------------------------------- jq script
\* os.getenv("ANTHROPIC_API_KEY"): unset (None), set to "", or set to a key
KeyValues == {"unset", "empty", "set"}

\* `if not ANTHROPIC_API_KEY`
KeyMissing_unsetOnly(k) == k = "unset"

KeyMissing(k) == k \in {"unset", "empty"}

UserPrompts == 1..MaxPrompts

\* JQ_PROMPT as the text around its {{user_request}} placeholder
JQ_PROMPT == <<"<purpose>", "{{user_request}}", "</user-request>">>

\* JQ_PROMPT.replace("{{user_request}}", args.prompt)
BuildPrompt(p) ==
    [i \in 1..Len(JQ_PROMPT) |->
        IF JQ_PROMPT[i] = "{{user_request}}" THEN <<"prompt", p>>
        ELSE <<JQ_PROMPT[i], 0>>]

\* response.content: a list of blocks, each the text of the block
Responses == {<<>>, <<<<"jq">>>>, <<<<" ", "jq", " ">>, <<"x">>>>, <<<<" ">>>>}

\* response.content[0].text.strip() raises IndexError on an empty list
ParseRaises(r) == r = <<>>

\* the exit status of the shell command
ReturnCodes == {0, 1, 2}

\* `if result.returncode != 0`
CommandFailed_never(rc) == FALSE

CommandFailed(rc) == rc # 0

\* what a step of main() leaves alone
JqStep(to, changed) ==
    /\ jpc' = to
    /\ UNCHANGED svcVars
    /\ UNCHANGED <<argsOk, apiKey, exe, prompt>>
    /\ "sent" \in changed \/ UNCHANGED sent
    /\ "apiCalls" \in changed \/ UNCHANGED apiCalls
    /\ "shellRuns" \in changed \/ UNCHANGED shellRuns
    /\ "jqCommand" \in changed \/ UNCHANGED jqCommand
    /\ "clientRaised" \in changed \/ UNCHANGED clientRaised
    /\ "apiRaised" \in changed \/ UNCHANGED apiRaised
    /\ "shellRaised" \in changed \/ UNCHANGED shellRaised
    /\ "printRaised" \in changed \/ UNCHANGED printRaised
    /\ "result" \in changed \/ UNCHANGED <<returncode, stderrEmpty>>
    /\ "guidance" \in changed \/ UNCHANGED guidance
    /\ "exitCode" \in changed \/ UNCHANGED exitCode

\* lines 122-132: parser.parse_args() exits with status 2 on a command line
\* without a prompt or with an unknown option
ParseArgs ==
    /\ jpc = "args"
    /\ IF argsOk
       THEN JqStep("start", {})
       ELSE /\ exitCode' = 2
            /\ JqStep("done", {"exitCode"})

\* lines 135-140: the credential check
CheckKey ==
    /\ jpc = "start"
    /\ IF KeyMissing(apiKey)
       THEN /\ guidance' = TRUE
            /\ exitCode' = 1
            /\ JqStep("done", {"guidance", "exitCode"})
       ELSE JqStep("client", {})

\* line 143: client = Anthropic(), outside the try block: an exception here
\* is not caught and ends the process with status 1
CreateClient ==
    /\ jpc = "client"
    /\ \/ JqStep("request", {})
       \/ /\ clientRaised' = TRUE
          /\ exitCode' = 1
          /\ JqStep("done", {"clientRaised", "exitCode"})

\* lines 147-158: build the prompt, call the API, take the first block's text
CallApi ==
    /\ jpc = "request"
    /\ sent' = BuildPrompt(prompt)
    /\ apiCalls' = apiCalls + 1
    /\ \/ /\ apiRaised' = TRUE
          /\ JqStep("except", {"sent", "apiCalls", "apiRaised"})
       \/ \E r \in Responses :
            IF ParseRaises(r)
            THEN /\ apiRaised' = TRUE
                 /\ JqStep("except", {"sent", "apiCalls", "apiRaised"})
            ELSE /\ jqCommand' = strip(r[1])
                 /\ JqStep("generated", {"sent", "apiCalls", "jqCommand"})

\* lines 159-162: print the command; without --exe main returns
AfterGenerate ==
    /\ jpc = "generated"
    /\ IF exe
       THEN JqStep("execute", {})
       ELSE /\ exitCode' = 0
            /\ JqStep("done", {"exitCode"})

\* lines 165-167: subprocess.run(jq_command, shell=True, text=True,
\* capture_output=True); it raises on a command it cannot pass to the shell
\* and on output it cannot decode
RunShell ==
    /\ jpc = "execute"
    /\ shellRuns' = shellRuns + 1
    /\ \/ /\ shellRaised' = TRUE
          /\ JqStep("except", {"shellRuns", "shellRaised"})
       \/ /\ returncode' \in ReturnCodes
          /\ stderrEmpty' \in BOOLEAN
          /\ JqStep("ran", {"shellRuns", "result"})

\* lines 168-174: report a failed command, else print both streams
ReportResult ==
    /\ jpc = "ran"
    /\ IF CommandFailed(returncode)
       THEN /\ exitCode' = 1
            /\ JqStep("done", {"exitCode"})
       ELSE \/ /\ printRaised' = TRUE
               /\ JqStep("except", {"printRaised"})
            \/ /\ exitCode' = 0
               /\ JqStep("done", {"exitCode"})

\* lines 176-178: except Exception: print the error, sys.exit(1)
Except ==
    /\ jpc = "except"
    /\ exitCode' = 1
    /\ JqStep("done", {"exitCode"})

InitJq ==
    /\ dirExists = FALSE
    /\ file = Absent
    /\ call = Call("init", <<>>, NoArg, NoArg, NoRange)
    /\ res = FileOperationResult(TRUE, "init", None)
    /\ pre = [dir |-> FALSE, file |-> Absent]
    /\ jpc = "args"
    /\ argsOk \in BOOLEAN
    /\ apiKey \in KeyValues
    /\ exe \in BOOLEAN
    /\ prompt \in UserPrompts
    /\ sent = <<>> /\ apiCalls = 0 /\ shellRuns = 0 /\ jqCommand = <<>>
    /\ clientRaised = FALSE
    /\ apiRaised = FALSE /\ shellRaised = FALSE /\ printRaised = FALSE
    /\ returncode = 0 /\ stderrEmpty = TRUE /\ guidance = FALSE
    /\ exitCode = -1

NextJq ==
    ParseArgs \/ CheckKey \/ CreateClient \/ CallApi \/ AfterGenerate
    \/ RunShell \/ ReportResult \/ Except

SpecJq == InitJq /\ [][NextJq]_vars

\* ================================================================ claims
\* The last call named the existing file d/f.
OnExistingFile ==
    /\ normalize_path(call.path) = ThePath
    /\ pre.file.exists

PreLines == readlines(pre.file.data)
PreN == Len(PreLines)

\* lines a..b (1-indexed, inclusive) of the file before the call
LinesFromTo(a, b) ==
    join(SubSeq(PreLines, Max(a, 1), Min(b, PreN)))

FsUnchanged == file = pre.file /\ dirExists = pre.dir

\* text with a line terminator, as a new line of the file
AsLine(x) == IF x # <<>> /\ x[Len(x)] = "\n" THEN x ELSE x \o <<"\n">>

\* the file before the call is empty or ends with a line terminator
PreTerminated ==
    pre.file.data = <<>> \/ pre.file.data[Len(pre.file.data)] = "\n"

\* C1: on an existing file of N (terminated) lines, insert_text with
\* 0 <= k <= N and a text succeeds and leaves lines 1..k, the text as a new
\* line, lines k+1..N.
C1_InsertAfterLine ==
    (/\ call.op = "insert_text"
     /\ OnExistingFile
     /\ PreTerminated
     /\ call.a1.t = "int" /\ call.a1.n >= 0 /\ call.a1.n <= PreN
     /\ call.a2.t = "str" /\ call.a2.s # <<>>)
    => /\ res.success
       /\ file.data = LinesFromTo(1, call.a1.n) \o AsLine(call.a2.s)
                      \o LinesFromTo(call.a1.n + 1, PreN)

\* C2: on an existing file of N lines, insert_text of a text with k > N fails
\* with the out-of-range message and leaves the file as it was.
C2_InsertOutOfRange ==
    (/\ call.op = "insert_text"
     /\ OnExistingFile
     /\ call.a2.t = "str" /\ call.a2.s # <<>>
     /\ call.a1.t = "int" /\ call.a1.n > PreN)
    => /\ ~res.success
       /\ res.message = "Insert line number out of range"
       /\ FsUnchanged

\* C3 as stated: view_file of an existing file succeeds; without a range the
\* content is the whole file, with [s, e] it is lines s..e, with e = -1 lines
\* s..N.
C3_ViewOriginal ==
    (call.op = "view_file" /\ OnExistingFile)
    => /\ res.success
       /\ res.content =
            Str(IF call.rng.t = "none" THEN pre.file.data
                ELSE IF call.rng.e = -1 THEN LinesFromTo(call.rng.s, PreN)
                ELSE LinesFromTo(call.rng.s, call.rng.e))

\* C3 amended: as C3, for e >= 0 and e = -1; an e below -1 counts from the end
\* of the file: the content is lines s..N+e.
C3_View ==
    (call.op = "view_file" /\ OnExistingFile)
    => /\ res.success
       /\ FsUnchanged
       /\ res.content =
            Str(IF call.rng.t = "none" THEN pre.file.data
                ELSE IF call.rng.e = -1 THEN LinesFromTo(call.rng.s, PreN)
                ELSE IF call.rng.e < -1
                     THEN LinesFromTo(call.rng.s, PreN + call.rng.e)
                ELSE LinesFromTo(call.rng.s, call.rng.e))

\* a view of line 2 alone of a file of three lines
C3_Witness ==
    /\ call.op = "view_file" /\ OnExistingFile
    /\ PreN = 3 /\ call.rng.t = "range"
    /\ call.rng.s = 2 /\ call.rng.e = 2
    /\ res.success /\ res.content = Str(PreLines[2])

\* the file after the call is the file before it with seg placed between
\* two of its lines
InsertedSegment(seg) ==
    \E i \in 0..PreN :
        file.data = LinesFromTo(1, i) \o seg \o LinesFromTo(i + 1, PreN)

\* C4: after a successful insert_text of a text, the segment inserted into
\* the file is the text terminated by a newline.
C4_InsertedEndsWithNewline ==
    (/\ call.op = "insert_text"
     /\ res.success
     /\ call.a2.t = "str")
    => \E seg \in {call.a2.s, call.a2.s \o <<"\n">>} :
          /\ seg # <<>>
          /\ seg[Len(seg)] = "\n"
          /\ InsertedSegment(seg)

\* old occurs in content
Occurs(old, content) ==
    \E i \in 1..(Len(content) + 1) :
        /\ i + Len(old) - 1 <= Len(content)
        /\ \A j \in 1..Len(old) : content[i + j - 1] = old[j]

\* C5: str_replace on an existing file that does not contain old_str fails
\* and leaves the file as it was.
C5_ReplaceAbsent ==
    (/\ call.op = "str_replace"
     /\ OnExistingFile
     /\ ~Occurs(call.a1.s, pre.file.data))
    => /\ ~res.success
       /\ FsUnchanged

\* a replace of "aa" in a non-empty file without it
C5_Witness ==
    /\ call.op = "str_replace" /\ OnExistingFile
    /\ call.a1.s = <<"a", "a">>
    /\ call.a2.t = "str"
    /\ Occurs(<<"a">>, pre.file.data)
    /\ ~Occurs(call.a1.s, pre.file.data)
    /\ ~res.success

\* C6 as stated: undo_edit succeeds for every path, with the fixed message,
\* and changes nothing.
C6_UndoAlways ==
    call.op = "undo_edit"
    => /\ res.success
       /\ res.message = UndoMessage
       /\ FsUnchanged

\* C6 amended: undo_edit changes nothing; for a path that is neither empty
\* nor blank it succeeds with the fixed message, for an empty or blank path
\* it fails with the invalid-path message.
C6_Undo ==
    call.op = "undo_edit"
    => /\ FsUnchanged
       /\ res.content = None
       /\ (call.path # <<>> /\ call.path # <<" ">>)
            => (res.success /\ res.message = UndoMessage)
       /\ (call.path = <<>> \/ call.path = <<" ">>)
            => (/\ ~res.success
                /\ res.message = "Invalid file path provided: path is empty.")

\* undo_edit of a non-empty existing file
C6_Witness ==
    /\ call.op = "undo_edit" /\ OnExistingFile
    /\ pre.file.data # <<>>
    /\ res.success

\* C7: a failed result has a non-empty message, and content is set only by
\* a successful view_file.
C7_ResultShape ==
    call.op # "init"
    => /\ (~res.success => res.message # "")
       /\ (res.content # None => (call.op = "view_file" /\ res.success))

\* a view_file that failed
C7_Witness ==
    /\ call.op = "view_file"
    /\ ~res.success
    /\ res.message = "File does not exist"
    /\ res.content = None

\* C8: with the credential unset or empty, a run given a prompt makes no API
\* call and no shell execution, and ends with the guidance printed and exit
\* code 1.
C8_NoKey ==
    (jpc # "idle" /\ argsOk /\ apiKey \in {"unset", "empty"})
    => /\ apiCalls = 0
       /\ shellRuns = 0
       /\ sent = <<>>
       /\ jpc \in {"args", "start", "done"}
       /\ (jpc = "done" => (exitCode = 1 /\ guidance))

\* a finished run with --exe and an empty credential
C8_Witness ==
    /\ jpc = "done" /\ argsOk /\ apiKey = "empty" /\ exe
    /\ exitCode = 1 /\ guidance

C10_FailureLeavesFile ==
    (call.op # "init" /\ ~res.success /\ pre.file.exists) => file = pre.file

====
